---- MODULE Spec2Model ----
(***************************************************************************)
(* A model of SimpleIFCSync (src/ifc_sync_simple.py): extraction of a      *)
(* building model into a table, annotation of an analysis copy, and the    *)
(* two sync entry points that write table cells back into property sets.   *)
(*                                                                         *)
(* Names (property-set names, property names, column names) are sequences  *)
(* of tokens; a token is either the delimiter "." or a dot-free piece of    *)
(* text, so that joining and splitting on "." are computed, not assumed.    *)
(* Values are records [t, s]: the Python type of the value and its str().  *)
(***************************************************************************)
EXTENDS Naturals, Sequences, FiniteSets, TLC

VARIABLES files, df, excel, now, last, calls, session

vars == <<files, df, excel, now, last, calls, session>>

-----------------------------------------------------------------------------
(* Bounds of the exploration.                                              *)

\* the operations that read the clock (run, extract, annotate, update, sync) in
\* one behaviour
MaxOps == 3

-----------------------------------------------------------------------------
(* Names.                                                                  *)

Dot == "."

N(tok) == <<tok>>

\* f"{pset_name}.{prop_name}"
ColName(pset_name, prop_name) == pset_name \o <<Dot>> \o prop_name

\* '.' in col
HasDot(col) == \E i \in 1..Len(col) : col[i] = Dot

LastDot(col) ==
    CHOOSE i \in 1..Len(col) : col[i] = Dot /\ \A j \in (i+1)..Len(col) : col[j] # Dot

\* col.rsplit('.', 1)
RSplit(col) ==
    <<SubSeq(col, 1, LastDot(col) - 1), SubSeq(col, LastDot(col) + 1, Len(col))>>

\* the tokens of the model's universe that begin with the character '_'
UnderscoreTokens == {"_source_file", "_extract_date", "_Meta"}

\* col.startswith('_')
StartsWithUnderscore(col) == Len(col) > 0 /\ col[1] \in UnderscoreTokens

-----------------------------------------------------------------------------
(* Values.                                                                 *)

S(text) == [t |-> "str", s |-> text]

I(text) == [t |-> "int", s |-> text]

None == [t |-> "none", s |-> "None"]

NaN == [t |-> "nan", s |-> "nan"]

\* str(value)
Str(v) == [t |-> "str", s |-> v.s]

\* pd.notna(value)
NotNa(v) == v.t \notin {"none", "nan"}

\* Python truthiness of a property value
Truthy(v) ==
    CASE v.t = "str" -> v.s # ""
      [] v.t = "int" -> v.s # "0"
      [] OTHER -> FALSE

-----------------------------------------------------------------------------
(* Ordered dictionaries: sequences of <<key, value>> with distinct keys,   *)
(* in insertion order, as Python's dict.                                   *)

DictHas(d, k) == \E i \in 1..Len(d) : d[i][1] = k

DictGet(d, k) == d[CHOOSE i \in 1..Len(d) : d[i][1] = k][2]

DictKeys(d) == {d[i][1] : i \in 1..Len(d)}

\* d[k] = v
DictSet(d, k, v) ==
    IF DictHas(d, k)
    THEN LET at == CHOOSE i \in 1..Len(d) : d[i][1] = k
         IN SubSeq(d, 1, at - 1) \o <<<<k, v>>>> \o SubSeq(d, at + 1, Len(d))
    ELSE Append(d, <<k, v>>)

\* d.update(d2)
RECURSIVE DictUpdate(_, _)
DictUpdate(d, d2) ==
    IF d2 = <<>> THEN d
    ELSE LET set == DictSet(d, d2[1][1], d2[1][2])
         IN IF set = d THEN DictUpdate(d, Tail(d2)) ELSE DictUpdate(set, Tail(d2))

-----------------------------------------------------------------------------
(* The model store.  An element carries its own property sets (the         *)
(* IfcRelDefinesByProperties relations of element.IsDefinedBy, in file     *)
(* order) and the property sets of its type, which the property-set read   *)
(* reports as well.  A property set is [name, props], props a sequence of  *)
(* <<property name, value>>.                                               *)

PSet(name, props) == [name |-> name, props |-> props]

\* the properties of one definition as a dict
PropsDict(pset) == DictUpdate(<<>>, pset.props)

\* psets[definition.Name] = properties, for the sets of the element's type
RECURSIVE TypePsets(_, _)
TypePsets(acc, tps) ==
    IF tps = <<>> THEN acc
    ELSE TypePsets(DictSet(acc, tps[1].name, PropsDict(tps[1])), Tail(tps))

\* psets.setdefault(definition.Name, {}).update(properties), for the element's own sets
RECURSIVE OwnPsets(_, _)
OwnPsets(acc, ps) ==
    IF ps = <<>> THEN acc
    ELSE LET nm  == ps[1].name
             old == IF DictHas(acc, nm) THEN DictGet(acc, nm) ELSE <<>>
         IN OwnPsets(DictSet(acc, nm, DictUpdate(old, PropsDict(ps[1]))), Tail(ps))

\* ifcopenshell.util.element.get_psets(element): a dict  set name -> dict  property -> value
get_psets(e) == OwnPsets(TypePsets(<<>>, e.tpsets), e.psets)

\* [p for p in element.IsDefinedBy if ... RelatingPropertyDefinition.Name == pset_name]
pset_rels(e, pset_name) == {i \in 1..Len(e.psets) : e.psets[i].name = pset_name}

\* pset_rels[0]
FirstRel(e, pset_name) ==
    CHOOSE i \in pset_rels(e, pset_name) : \A j \in pset_rels(e, pset_name) : i <= j

\* ifcopenshell.api.run("pset.add_pset", ifc, product=element, name=pset_name)
\* a creation that loses the name it was asked for
add_pset_unnamed(e, pset_name) == [e EXCEPT !.psets = Append(@, PSet(N("Pset"), <<>>))]

add_pset(e, pset_name) == [e EXCEPT !.psets = Append(@, PSet(pset_name, <<>>))]

\* ifcopenshell.api.run("pset.edit_pset", ifc, pset=pset, properties=props):
\* the named properties are updated in place or appended, the others kept
\* a write that replaces the content of the set instead of merging into it
edit_pset_replace(e, idx, props) == [e EXCEPT !.psets[idx].props = props]

\* a write through the wrong handle: into the first set of the element
edit_pset_first(e, idx, props) == [e EXCEPT !.psets[1].props = DictUpdate(@, props)]

\* an edit that adds the properties after those of the set, whether or not the
\* set has them
edit_pset_append(e, idx, props) == [e EXCEPT !.psets[idx].props = @ \o props]

edit_pset(e, idx, props) ==
    [e EXCEPT !.psets[idx].props = DictUpdate(@, props)]

\* the index of the set a preceding add_pset returned
NewRel(e) == Len(e.psets)

\* ifc.by_guid(guid): the position of the element, 0 when there is none (the call raises)
by_guid(model, guid) ==
    IF \E i \in 1..Len(model) : model[i].guid = guid
    THEN CHOOSE i \in 1..Len(model) : model[i].guid = guid
    ELSE 0

-----------------------------------------------------------------------------
(* Tables (pandas DataFrames): an ordered list of column names and a list  *)
(* of rows, each row a function from the columns to cell values.           *)

GUID == N("GUID")

StatusCol == ColName(N("G55_LCA"), N("Gjenbruksstatus"))

NoTable == [has |-> FALSE, cols |-> <<>>, rows |-> <<>>]

Table(cols, rows) == [has |-> TRUE, cols |-> cols, rows |-> rows]

ColSet(cols) == {cols[i] : i \in 1..Len(cols)}

-----------------------------------------------------------------------------
(* sync_excel_to_ifc, lines 405-439.                                       *)

\* a write that creates the set for every cell, without looking for it
SyncCellCreates(e, col, v) ==
    IF HasDot(col) /\ NotNa(v) /\ ~StartsWithUnderscore(col)
    THEN LET created == add_pset(e, RSplit(col)[1])
         IN edit_pset(created, NewRel(created), <<<<RSplit(col)[2], Str(v)>>>>)
    ELSE e

\* a cell filter without the pd.notna test: str(nan) is written like a value
SyncCellWritesNaN(e, col, v) ==
    IF HasDot(col) /\ ~StartsWithUnderscore(col)
    THEN LET pset_name == RSplit(col)[1]
             props     == <<<<RSplit(col)[2], Str(v)>>>>
         IN IF DictHas(get_psets(e), pset_name)
            THEN IF pset_rels(e, pset_name) # {}
                 THEN edit_pset(e, FirstRel(e, pset_name), props)
                 ELSE e
            ELSE LET created == add_pset(e, pset_name)
                 IN edit_pset(created, NewRel(created), props)
    ELSE e

\* the body of "for col in row.index", lines 412-433, for one cell
SyncCell(e, col, v) ==
    IF HasDot(col) /\ NotNa(v) /\ ~StartsWithUnderscore(col)
    THEN LET pset_name == RSplit(col)[1]
             prop_name == RSplit(col)[2]
             psets     == get_psets(e)
             props     == <<<<prop_name, Str(v)>>>>
         IN IF DictHas(psets, pset_name)
            THEN IF pset_rels(e, pset_name) # {}
                 THEN edit_pset(e, FirstRel(e, pset_name), props)
                 ELSE e
            ELSE LET created == add_pset(e, pset_name)
                 IN edit_pset(created, NewRel(created), props)
    ELSE e

RECURSIVE SyncCells(_, _, _)
SyncCells(e, row, cols) ==
    IF cols = <<>> THEN e
    ELSE LET written == SyncCell(e, cols[1], row[cols[1]])
         IN IF written = e THEN SyncCells(e, row, Tail(cols))
            ELSE SyncCells(written, row, Tail(cols))

\* a lookup that falls back to the first element when the GUID is unknown
SyncRowFallback(model, row, cols) ==
    LET at == by_guid(model, row[GUID].s)
    IN [model EXCEPT ![IF at = 0 THEN 1 ELSE at] = SyncCells(@, row, cols)]

\* one iteration of "for idx, row in df.iterrows()": an unknown GUID makes by_guid
\* raise, the handler logs it and the loop continues
SyncRow(model, row, cols) ==
    LET at == by_guid(model, row[GUID].s)
    IN IF at = 0 \/ ~NotNa(row[GUID]) THEN model
       ELSE [model EXCEPT ![at] = SyncCells(@, row, cols)]

RECURSIVE SyncRows(_, _, _)
SyncRows(model, rows, cols) ==
    IF rows = <<>> THEN model
    ELSE LET synced == SyncRow(model, rows[1], cols)
         IN IF synced = model THEN SyncRows(model, Tail(rows), cols)
            ELSE SyncRows(synced, Tail(rows), cols)

\* the model sync_excel_to_ifc writes to analysis_ifc_path
SyncModel(model, tbl) == SyncRows(model, tbl.rows, tbl.cols)

\* updated_count of sync_excel_to_ifc: the rows whose element was found
SyncCount(model, tbl) ==
    Cardinality({i \in 1..Len(tbl.rows) :
        NotNa(tbl.rows[i][GUID]) /\ by_guid(model, tbl.rows[i][GUID].s) # 0})

-----------------------------------------------------------------------------
(* update_ifc_from_dataframe, lines 316-341.                               *)

FastRow(model, row, cols) ==
    LET at == by_guid(model, row[GUID].s)
    IN IF at = 0 \/ ~NotNa(row[GUID]) THEN model
       ELSE LET e == model[at]
            IN IF /\ DictHas(get_psets(e), N("G55_LCA"))
                  /\ pset_rels(e, N("G55_LCA")) # {}
                  /\ StatusCol \in ColSet(cols)
                  /\ NotNa(row[StatusCol])
               THEN [model EXCEPT ![at] =
                        edit_pset(e, FirstRel(e, N("G55_LCA")),
                                  <<<<N("Gjenbruksstatus"), Str(row[StatusCol])>>>>)]
               ELSE model

RECURSIVE FastRows(_, _, _)
FastRows(model, rows, cols) ==
    IF rows = <<>> THEN model
    ELSE LET updated == FastRow(model, rows[1], cols)
         IN IF updated = model THEN FastRows(model, Tail(rows), cols)
            ELSE FastRows(updated, Tail(rows), cols)

\* the model update_ifc_from_dataframe writes to analysis_ifc_path
UpdateModel(model, tbl) == FastRows(model, tbl.rows, tbl.cols)

-----------------------------------------------------------------------------
(* create_analysis_ifc, lines 232-286.                                     *)

\* datetime.now().isoformat() / datetime.fromtimestamp(...).isoformat() at clock tick n
IsoTime(n) == "T" \o ToString(n)

\* the tokens of the model's universe whose upper-case form contains 'MMI'
MMITokens == {"MMI", "mmi_kode"}

\* 'MMI' in prop_name.upper()
ContainsMMI(prop_name) == \E i \in 1..Len(prop_name) : prop_name[i] \in MMITokens

\* the inner loop of lines 253-256: stop at the first property named like MMI
RECURSIVE ScanProps(_)
ScanProps(props) ==
    IF props = <<>> THEN ""
    ELSE IF ContainsMMI(props[1][1])
         THEN (IF Truthy(props[1][2]) THEN props[1][2].s ELSE "")
         ELSE ScanProps(Tail(props))

\* lines 251-258: original_mmi, scanning set after set until a non-empty value
RECURSIVE ScanMMI(_)
ScanMMI(psets) ==
    IF psets = <<>> THEN ""
    ELSE IF ScanProps(psets[1][2]) # "" THEN ScanProps(psets[1][2])
         ELSE ScanMMI(Tail(psets))

\* lines 239-243
ProsjektinfoProps(t) ==
    << <<N("Prosjekt"), S("Gronland 55")>>,
       <<N("Opprettet"), S(IsoTime(t))>>,
       <<N("Status"), S("Analyse")>> >>

\* the analysis set with its status left empty like the other placeholders
LCAPropsNoStatus(guid, basert_pa_ifc, original_mmi) ==
    << <<N("External_ID"), S(guid)>>,
       <<N("Basert_pa_IFC"), S(basert_pa_ifc)>>,
       <<N("Original_MMI"), S(original_mmi)>>,
       <<N("Gjenbruksstatus"), S("")>>,
       <<N("LCA_Status"), S("Pending")>>,
       <<N("CO2_kg"), S("")>>,
       <<N("LCA_Method"), S("")>>,
       <<N("Notes"), S("")>> >>

\* lines 260-269
LCAProps(guid, basert_pa_ifc, original_mmi) ==
    << <<N("External_ID"), S(guid)>>,
       <<N("Basert_pa_IFC"), S(basert_pa_ifc)>>,
       <<N("Original_MMI"), S(original_mmi)>>,
       <<N("Gjenbruksstatus"), S("NY")>>,
       <<N("LCA_Status"), S("Pending")>>,
       <<N("CO2_kg"), S("")>>,
       <<N("LCA_Method"), S("")>>,
       <<N("Notes"), S("")>> >>

\* an annotation that does not look whether the set is there already
AddProsjektinfoAlways(e, psets, t) ==
    LET created == add_pset(e, N("G55_Prosjektinfo"))
    IN edit_pset(created, NewRel(created), ProsjektinfoProps(t))

\* lines 236-244
AddProsjektinfo(e, psets, t) ==
    IF ~DictHas(psets, N("G55_Prosjektinfo"))
    THEN LET created == add_pset(e, N("G55_Prosjektinfo"))
         IN edit_pset(created, NewRel(created), ProsjektinfoProps(t))
    ELSE e

\* lines 246-270
AddLCA(e, psets, basert_pa_ifc) ==
    IF ~DictHas(psets, N("G55_LCA"))
    THEN LET created == add_pset(e, N("G55_LCA"))
         IN edit_pset(created, NewRel(created),
                      LCAProps(e.guid, basert_pa_ifc, ScanMMI(psets)))
    ELSE e

\* the body of "for idx, product in enumerate(products)", lines 234-270
Annotate(e, basert_pa_ifc, t) ==
    LET psets == get_psets(e)
    IN AddLCA(AddProsjektinfo(e, psets, t), psets, basert_pa_ifc)

\* line 227
BasertPaIfc(file_name, mtime) == file_name \o " @ " \o IsoTime(mtime)

\* the model create_analysis_ifc writes to analysis_path
AnalysisModel(model, file_name, mtime, t) ==
    [i \in 1..Len(model) |-> Annotate(model[i], BasertPaIfc(file_name, mtime), t)]

-----------------------------------------------------------------------------
(* extract_ifc_to_excel, lines 93-188.                                     *)

\* the tokens of the model's universe whose upper-case form contains
\* 'ELEMENTID', 'REVITID' or 'BATID'
IdTokens == {"ElementId", "RevitId", "BatID"}

IsIdName(prop_name) == \E i \in 1..Len(prop_name) : prop_name[i] \in IdTokens

\* lines 66-70, over the properties of all sets in order: the first truthy one named like an id
RECURSIVE ScanId(_)
ScanId(pairs) ==
    IF pairs = <<>> THEN None
    ELSE IF IsIdName(pairs[1][1]) /\ Truthy(pairs[1][2]) THEN Str(pairs[1][2])
         ELSE ScanId(Tail(pairs))

\* every (property name, value) of every set of a get_psets result, in iteration order
RECURSIVE AllProps(_)
AllProps(psets) ==
    IF psets = <<>> THEN <<>> ELSE psets[1][2] \o AllProps(Tail(psets))

\* get_bim_id, lines 60-71
get_bim_id(e) ==
    IF Truthy(e.tag) THEN Str(e.tag) ELSE ScanId(AllProps(get_psets(e)))

\* ' | '.join(material_names)
RECURSIVE JoinNames(_)
JoinNames(names) ==
    IF Len(names) = 1 THEN names[1]
    ELSE names[1] \o " | " \o JoinNames(Tail(names))

\* lines 118-123
MaterialOf(e) == IF e.materials = <<>> THEN None ELSE S(JoinNames(e.materials))

\* line 103
spatial_elements == {"IfcSite", "IfcBuilding", "IfcBuildingStorey", "IfcSpace", "IfcZone"}

\* the first relation of rels whose target is of the given kind, 0 when none
FirstOfKind(rels, kind) ==
    IF \E i \in 1..Len(rels) : rels[i].kind = kind
    THEN CHOOSE i \in 1..Len(rels) :
            rels[i].kind = kind /\ \A j \in 1..(i-1) : rels[j].kind # kind
    ELSE 0

\* lines 126-134: every entity has a Name attribute, so hasattr() holds and the
\* name is taken even when it is None
FloorOf(e) ==
    IF e.entity \notin spatial_elements /\ FirstOfKind(e.contained, "IfcBuildingStorey") # 0
    THEN e.contained[FirstOfKind(e.contained, "IfcBuildingStorey")].name
    ELSE None

\* lines 137-154
ZoneOf(e) ==
    LET byGroup == IF FirstOfKind(e.groups, "IfcZone") # 0
                   THEN e.groups[FirstOfKind(e.groups, "IfcZone")].name
                   ELSE None
    IN IF ~Truthy(byGroup) /\ e.entity \notin spatial_elements
          /\ FirstOfKind(e.contained, "IfcSpace") # 0
       THEN e.contained[FirstOfKind(e.contained, "IfcSpace")].name
       ELSE byGroup

\* lines 159-161 for one set: (f"{pset_name}.{prop_name}", value), None as ""
FlatProps(pset_name, props) ==
    [i \in 1..Len(props) |->
        <<ColName(pset_name, props[i][1]),
          IF props[i][2] = None THEN S("") ELSE props[i][2]>>]

\* lines 157-161: the assignments row[col_name] = ... in the order they are made
RECURSIVE FlatPsets(_)
FlatPsets(psets) ==
    IF psets = <<>> THEN <<>>
    ELSE FlatProps(psets[1][1], psets[1][2]) \o FlatPsets(Tail(psets))

\* lines 109-161: the row of one element, a dict  column -> cell
RowOf(e) ==
    DictUpdate(<< <<GUID, S(e.guid)>>,
                  <<N("BIM_ID"), get_bim_id(e)>>,
                  <<N("Entity"), S(e.entity)>>,
                  <<N("Name"), e.name>>,
                  <<N("Type"), e.objtype>>,
                  <<N("Material"), MaterialOf(e)>>,
                  <<N("Floor"), FloorOf(e)>>,
                  <<N("Zone"), ZoneOf(e)>> >>,
               FlatPsets(get_psets(e)))

\* a loop that an element's error ends: the rows built so far are all there is
RECURSIVE RowsOfAbort(_)
RowsOfAbort(model) ==
    IF model = <<>> \/ model[1].malformed THEN <<>>
    ELSE <<RowOf(model[1])>> \o RowsOfAbort(Tail(model))

\* lines 105-172: data, one row per element whose row construction raised nothing
RECURSIVE RowsOf(_)
RowsOf(model) ==
    IF model = <<>> THEN <<>>
    ELSE IF model[1].malformed THEN RowsOf(Tail(model))
         ELSE <<RowOf(model[1])>> \o RowsOf(Tail(model))

RECURSIVE Concat(_)
Concat(data) == IF data = <<>> THEN <<>> ELSE data[1] \o Concat(Tail(data))

\* the columns of pd.DataFrame(data): the keys of the rows in order of first appearance
UnionCols(data) ==
    LET seen == DictUpdate(<<>>, Concat(data))
    IN [i \in 1..Len(seen) |-> seen[i][1]]

\* df[col] = value: a column set to one value in every row, appended when new
SetColumn(tbl, col, v) ==
    Table(IF col \in ColSet(tbl.cols) THEN tbl.cols ELSE Append(tbl.cols, col),
          [i \in 1..Len(tbl.rows) |->
              [c \in ColSet(tbl.cols) \cup {col} |-> IF c = col THEN v ELSE tbl.rows[i][c]]])

\* a table that takes its columns from the first row alone
DataFrameFirst(data) ==
    LET cols == UnionCols(SubSeq(data, 1, 1))
    IN Table(cols, [i \in 1..Len(data) |->
                      [c \in ColSet(cols) |->
                          IF DictHas(data[i], c) THEN DictGet(data[i], c) ELSE NaN]])

\* line 177: pd.DataFrame(data), cells a row does not have are NaN
DataFrame(data) ==
    LET cols == UnionCols(data)
    IN Table(cols, [i \in 1..Len(data) |->
                      [c \in ColSet(cols) |->
                          IF DictHas(data[i], c) THEN DictGet(data[i], c) ELSE NaN]])

\* the table extract_ifc_to_excel returns, lines 177-188
ExtractTable(model, file_name, t) ==
    SetColumn(SetColumn(DataFrame(RowsOf(model)), N("_source_file"), S(file_name)),
              N("_extract_date"), S(IsoTime(t)))

-----------------------------------------------------------------------------
(* save_dataframe_to_excel / pd.read_excel: what a table is after a trip   *)
(* through a spreadsheet file.  An empty or missing cell is read as NaN.   *)

ReadCell(v) == IF v.t = "none" \/ (v.t = "str" /\ v.s = "") THEN NaN ELSE v

ReadExcel(tbl) ==
    [tbl EXCEPT !.rows = [i \in 1..Len(tbl.rows) |->
                            [c \in ColSet(tbl.cols) |-> ReadCell(tbl.rows[i][c])]]]

-----------------------------------------------------------------------------
(* Files.  "src" is the model in the input folder, "ana" its analysis copy *)
(* <dir>/Skiplum demo/<stem>_analyse.ifc, "ana2" the analysis copy of the  *)
(* analysis copy, "cust" the file <dir>/Skiplum demo/<custom_filename>.    *)

Paths == {"src", "ana", "ana2", "cust"}

NoFile == [has |-> FALSE, elems |-> <<>>, mtime |-> 0]

File(elems, mtime) == [has |-> TRUE, elems |-> elems, mtime |-> mtime]

\* ifc_path.name
FileName(p) ==
    CASE p = "src" -> "x.ifc"
      [] p = "ana" -> "x_analyse.ifc"
      [] OTHER     -> "x_analyse_analyse.ifc"

\* lines 205-213: skiplum_folder / (ifc_path.stem + "_analyse" + ifc_path.suffix)
AnalysisPath(p) == IF p = "src" THEN "ana" ELSE "ana2"

-----------------------------------------------------------------------------
(* The elements the source model is drawn from.                            *)

Elem(guid, entity, psets, tpsets) ==
    [guid |-> guid, entity |-> entity, tag |-> None, name |-> S("n-" \o guid),
     objtype |-> None, materials |-> <<>>, contained |-> <<>>, groups |-> <<>>,
     malformed |-> FALSE, psets |-> psets, tpsets |-> tpsets]

SetS == PSet(N("S"), << <<N("a"), S("1")>>, <<N("b"), S("2")>> >>)

\* a wall with its own set S {a, b}
PlainElem(g) == Elem(g, "IfcWall", <<SetS>>, <<>>)

\* a wall whose set S comes from its type only
TypedElem(g) == Elem(g, "IfcWall", <<>>, <<SetS>>)

\* set "A" with property "B.c", and set "A.B" with property "c"
DotsElem(g) ==
    Elem(g, "IfcWall",
         << PSet(N("A"), << <<ColName(N("B"), N("c")), S("1")>> >>),
            PSet(ColName(N("A"), N("B")), << <<N("c"), S("2")>> >>) >>,
         <<>>)

\* a wall that carries the annotation of an earlier run, its status edited since
AnnotatedElem(g) ==
    Elem(g, "IfcWall",
         << PSet(N("G55_Prosjektinfo"), ProsjektinfoProps(0)),
            PSet(N("G55_LCA"),
                 DictSet(LCAProps(g, BasertPaIfc("old.ifc", 0), ""),
                         N("Gjenbruksstatus"), S("EKS"))) >>,
         <<>>)

\* a wall whose set S holds a number and an unset property, with a set whose
\* name starts with '_'
NumElem(g) ==
    Elem(g, "IfcWall",
         << PSet(N("S"), << <<N("a"), I("1")>>, <<N("b"), None>> >>),
            PSet(N("_Meta"), << <<N("m"), S("0")>> >>) >>, <<>>)

\* a slab with a tag, materials, a storey and a set Y {q, r}
SlabElem(g) ==
    [Elem(g, "IfcSlab", << PSet(N("Y"), << <<N("q"), S("3")>>, <<N("r"), S("4")>> >>) >>, <<>>)
        EXCEPT !.tag = S("4711"),
               !.materials = <<"Concrete", "Insulation">>,
               !.contained = << [kind |-> "IfcBuildingStorey", name |-> S("Plan 1"),
                                 longname |-> None] >>]

\* a wall whose material reference is malformed: get_materials raises on it
BrokenElem(g) == [PlainElem(g) EXCEPT !.malformed = TRUE]

FirstElems ==
    {PlainElem("g1"), TypedElem("g1"), DotsElem("g1"), AnnotatedElem("g1"),
     NumElem("g1"), BrokenElem("g1")}

SourceModels == {<<e, SlabElem("g2")>> : e \in FirstElems}

\* the global ids a user types into a GUID cell: one no model holds, and the
\* one of the first element
EditGuids == {S("gX"), S("g1")}

\* the value a user types into a property cell
EditValue == S("GJEN")

\* the property columns whose cells the user edits
EditCols ==
    {StatusCol, ColName(N("S"), N("a")), ColName(N("Y"), N("q")),
     ColName(N("A"), ColName(N("B"), N("c"))), ColName(N("_Meta"), N("m"))}

-----------------------------------------------------------------------------
(* The state machine.  files: the model files on storage; df: the table    *)
(* the caller holds in memory; excel: the spreadsheet file; now: the clock, *)
(* one tick per operation that reads it; last: the                         *)
(* last operation, its inputs, the target model before it and its result;  *)
(* calls: the sync calls in flight, each with the table it read and the    *)
(* model it holds in memory; session: the processing flag of the           *)
(* dashboard session, the position of its button handler and whether the   *)
(* page shows the button disabled.                                         *)

Op(op, inp, out, pre, tbl, ret) ==
    [op |-> op, inp |-> inp, out |-> out, pre |-> pre, tbl |-> tbl, ret |-> ret,
     fault |-> "none"]

\* the call sites that sync at the same time: two sessions of the dashboard
Calls == {"a", "b"}

\* a call that has not started
Idle == [pc |-> "idle", tbl |-> NoTable, base |-> <<>>, mem |-> <<>>]

\* st.session_state of a dashboard session as it starts, lines 91-92, and the
\* page as it is rendered then: is_processing is False, the handler of the
\* 'analyse' button is not running, the button is enabled
NewSession == [is_processing |-> FALSE, pc |-> "idle", disabled |-> FALSE]

Init ==
    /\ calls = [c \in Calls |-> Idle]
    /\ session = NewSession
    /\ \E m \in SourceModels :
          files = [p \in Paths |-> IF p = "src" THEN File(m, 0) ELSE NoFile]
    /\ df = NoTable
    /\ excel = NoTable
    /\ now = 1
    /\ last = Op("init", "src", "src", <<>>, NoTable, "None")

\* a workflow that saves the table to the spreadsheet file as a step of its own
RunWorkflowSavesExcel ==
    /\ now <= MaxOps
    /\ files["src"].has
    /\ df' = ExtractTable(files["src"].elems, FileName("src"), now)
    /\ excel' = df'
    /\ files' = [files EXCEPT !["ana"] =
                    File(AnalysisModel(files["src"].elems, FileName("src"),
                                       files["src"].mtime, now), now)]
    /\ last' = Op("run_workflow", "src", "ana", files["ana"].elems, NoTable, "dict")
    /\ now' = now + 1
    /\ UNCHANGED <<calls, session>>

\* run_workflow, lines 467-508, for the file of the input folder
RunWorkflow ==
    /\ now <= MaxOps
    /\ files["src"].has
    /\ df' = ExtractTable(files["src"].elems, FileName("src"), now)
    /\ files' = [files EXCEPT !["ana"] =
                    File(AnalysisModel(files["src"].elems, FileName("src"),
                                       files["src"].mtime, now), now)]
    /\ last' = Op("run_workflow", "src", "ana", files["ana"].elems, NoTable, "dict")
    /\ now' = now + 1
    /\ UNCHANGED excel
    /\ UNCHANGED <<calls, session>>

\* extract_ifc_to_excel(ifc_path), lines 88-188
ExtractIfcToExcel(p) ==
    /\ now <= MaxOps
    /\ files[p].has
    /\ df' = ExtractTable(files[p].elems, FileName(p), now)
    /\ last' = Op("extract", p, p, files[p].elems, NoTable, "df")
    /\ now' = now + 1
    /\ UNCHANGED <<files, excel>>
    /\ UNCHANGED <<calls, session>>

\* create_analysis_ifc(ifc_path), lines 204-291
CreateAnalysisIfc(p) ==
    /\ now <= MaxOps
    /\ files[p].has
    /\ files' = [files EXCEPT ![AnalysisPath(p)] =
                    File(AnalysisModel(files[p].elems, FileName(p), files[p].mtime, now),
                         now)]
    /\ last' = Op("create_analysis", p, AnalysisPath(p), files[AnalysisPath(p)].elems,
                  NoTable, "path")
    /\ now' = now + 1
    /\ UNCHANGED <<df, excel>>
    /\ UNCHANGED <<calls, session>>

\* the edits a user makes: a value typed into a property cell of an edited
\* column, or a global id typed into a GUID cell
EditCells(tbl) ==
    {<<i, c, EditValue>> : i \in 1..Len(tbl.rows), c \in ColSet(tbl.cols) \cap EditCols}
    \cup {<<i, GUID, g>> : i \in 1..Len(tbl.rows), g \in EditGuids}

ApplyEdit(tbl, cell) == [tbl EXCEPT !.rows[cell[1]][cell[2]] = cell[3]]

\* the table as it is, and the tables a user makes of it by editing one cell
Edited(tbl) == {tbl} \cup {ApplyEdit(tbl, cell) : cell \in EditCells(tbl)}

\* streamlit_dashboard.py lines 763-765: the dashboard adds the status column to
\* the table it holds when the column is missing
AddStatusColumn ==
    /\ df.has
    /\ StatusCol \notin ColSet(df.cols)
    /\ df' = SetColumn(df, StatusCol, S("NY"))
    /\ last' = Op("add_status", last.inp, last.inp, <<>>, NoTable, "None")
    /\ UNCHANGED <<files, excel, now>>
    /\ UNCHANGED <<calls, session>>

\* update_ifc_from_dataframe(df, analysis_ifc_path), lines 309-351, on the table in
\* memory as the user edited it
UpdateIfcFromDataframe(p, tbl) ==
    /\ now <= MaxOps
    /\ IF files[p].has
       THEN /\ files' = [files EXCEPT ![p] = File(UpdateModel(files[p].elems, tbl), now)]
            /\ last' = Op("update", p, p, files[p].elems, tbl, "True")
       ELSE /\ files' = files
            /\ last' = Op("update", p, p, files[p].elems, tbl, "False")
    /\ now' = now + 1
    /\ UNCHANGED <<df, excel>>
    /\ UNCHANGED <<calls, session>>

\* save_dataframe_to_excel(df, excel_path), lines 366-382
SaveDataframeToExcel ==
    /\ df.has
    /\ excel # df
    /\ excel' = df
    /\ last' = Op("save_excel", "src", "src", <<>>, df, "True")
    /\ UNCHANGED <<files, df, now>>
    /\ UNCHANGED <<calls, session>>

\* sync_excel_to_ifc(excel_path, analysis_ifc_path), lines 395-449, on the
\* spreadsheet as the user edited it
SyncExcelToIfc(p, tbl) ==
    /\ now <= MaxOps
    /\ IF files[p].has
       THEN /\ files' = [files EXCEPT ![p] = File(SyncModel(files[p].elems, tbl), now)]
            /\ last' = Op("sync", p, p, files[p].elems, tbl, "True")
       ELSE /\ files' = files
            /\ last' = Op("sync", p, p, files[p].elems, tbl, "False")
    /\ now' = now + 1
    /\ UNCHANGED <<df, excel>>
    /\ UNCHANGED <<calls, session>>

Next ==
    \/ RunWorkflow
    \/ ExtractIfcToExcel("ana")
    \/ CreateAnalysisIfc("ana")
    \/ AddStatusColumn
    \/ df.has /\ \E tbl \in Edited(df) : UpdateIfcFromDataframe("ana", tbl)
    \/ df.has /\ UpdateIfcFromDataframe("src", df)
    \/ SaveDataframeToExcel
    \/ excel.has /\ \E tbl \in Edited(ReadExcel(excel)) : SyncExcelToIfc("ana", tbl)

Spec == Init /\ [][Next]_vars

-----------------------------------------------------------------------------
(* The operations in an environment that fails: a file that exists cannot  *)
(* be opened or read, a save fails.  fault is what failed in the last      *)
(* operation; ret is what its caller got: the value returned, or "raise"   *)
(* for an exception that reached the caller.                               *)

Failed(op, inp, out, pre, fault, ret) ==
    [Op(op, inp, out, pre, NoTable, ret) EXCEPT !.fault = fault]

\* what a save that failed leaves at the path: the file as it was, or no
\* readable file
AfterFailedWrite(f) == {f, NoFile}

\* a save placed after the try block: its failure reaches the caller
SyncResultSaveOutside(fault) ==
    IF fault = "none" THEN "True" ELSE IF fault = "save" THEN "raise" ELSE "False"

\* sync_excel_to_ifc, update_ifc_from_dataframe: pd.read_excel (line 397),
\* ifcopenshell.open (400, 311) and ifc.write (442, 344) are inside the outer
\* try, whose handler returns False (447-449, 349-351)
SyncResult(fault) == IF fault = "none" THEN "True" ELSE "False"

\* extract_ifc_to_excel, create_analysis_ifc, run_workflow: ifcopenshell.open
\* (lines 93, 221) and ifc.write (285) are in no try block
WorkflowResult(fault) == IF fault = "none" THEN "dict" ELSE "raise"

\* the keys of the dict run_workflow returns, lines 505-508
ResultKeys == {"analysis_ifc", "dataframe"}

\* run_workflow(ifc_filename, analysis_ifc_filename = <custom file name>)
RunWorkflowCustom ==
    /\ now <= MaxOps
    /\ files["src"].has
    /\ df' = ExtractTable(files["src"].elems, FileName("src"), now)
    /\ files' = [files EXCEPT !["cust"] =
                    File(AnalysisModel(files["src"].elems, FileName("src"),
                                       files["src"].mtime, now), now)]
    /\ last' = Op("run_workflow", "src", "cust", files["cust"].elems, NoTable,
                  WorkflowResult("none"))
    /\ now' = now + 1
    /\ UNCHANGED excel
    /\ UNCHANGED <<calls, session>>

\* run_workflow for a file name the input folder does not hold, lines 469-471
RunWorkflowAbsent ==
    /\ now <= MaxOps
    /\ last' = Op("run_workflow", "absent", "absent", <<>>, NoTable, "None")
    /\ now' = now + 1
    /\ UNCHANGED <<files, df, excel>>
    /\ UNCHANGED <<calls, session>>

\* run_workflow when the source cannot be opened (line 93) or the analysis copy
\* cannot be saved (line 285): the exception leaves run_workflow, the caller
\* gets no table
RunWorkflowFails(fault) ==
    /\ now <= MaxOps
    /\ files["src"].has
    /\ IF fault = "save"
       THEN \E f \in AfterFailedWrite(files["ana"]) : files' = [files EXCEPT !["ana"] = f]
       ELSE files' = files
    /\ last' = Failed("run_workflow", "src", "ana", files["ana"].elems, fault,
                      WorkflowResult(fault))
    /\ now' = now + 1
    /\ UNCHANGED <<df, excel>>
    /\ UNCHANGED <<calls, session>>

\* extract_ifc_to_excel when the file cannot be opened, line 93
ExtractFails(p) ==
    /\ now <= MaxOps
    /\ files[p].has
    /\ last' = Failed("extract", p, p, files[p].elems, "open", WorkflowResult("open"))
    /\ now' = now + 1
    /\ UNCHANGED <<files, df, excel>>
    /\ UNCHANGED <<calls, session>>

\* create_analysis_ifc when the file cannot be opened (line 221) or the copy
\* cannot be saved (line 285)
CreateFails(p, fault) ==
    /\ now <= MaxOps
    /\ files[p].has
    /\ IF fault = "save"
       THEN \E f \in AfterFailedWrite(files[AnalysisPath(p)]) :
               files' = [files EXCEPT ![AnalysisPath(p)] = f]
       ELSE files' = files
    /\ last' = Failed("create_analysis", p, AnalysisPath(p), files[AnalysisPath(p)].elems,
                      fault, WorkflowResult(fault))
    /\ now' = now + 1
    /\ UNCHANGED <<df, excel>>
    /\ UNCHANGED <<calls, session>>

\* update_ifc_from_dataframe when the model cannot be opened or saved
UpdateFails(p, fault) ==
    /\ now <= MaxOps
    /\ df.has
    /\ files[p].has
    /\ IF fault = "save"
       THEN \E f \in AfterFailedWrite(files[p]) : files' = [files EXCEPT ![p] = f]
       ELSE files' = files
    /\ last' = Failed("update", p, p, files[p].elems, fault, SyncResult(fault))
    /\ now' = now + 1
    /\ UNCHANGED <<df, excel>>
    /\ UNCHANGED <<calls, session>>

\* sync_excel_to_ifc when the spreadsheet cannot be read, or the model cannot be
\* opened or saved
SyncFails(p, fault) ==
    /\ now <= MaxOps
    /\ fault = "read" \/ (excel.has /\ files[p].has)
    /\ IF fault = "save"
       THEN \E f \in AfterFailedWrite(files[p]) : files' = [files EXCEPT ![p] = f]
       ELSE files' = files
    /\ last' = Failed("sync", p, p, files[p].elems, fault, SyncResult(fault))
    /\ now' = now + 1
    /\ UNCHANGED <<df, excel>>
    /\ UNCHANGED <<calls, session>>

NextIO ==
    \/ RunWorkflow
    \/ RunWorkflowCustom
    \/ RunWorkflowAbsent
    \/ ExtractIfcToExcel("ana")
    \/ CreateAnalysisIfc("ana")
    \/ AddStatusColumn
    \/ df.has /\ UpdateIfcFromDataframe("ana", df)
    \/ SaveDataframeToExcel
    \/ excel.has /\ SyncExcelToIfc("ana", ReadExcel(excel))
    \/ \E fault \in {"open", "save"} : RunWorkflowFails(fault)
    \/ ExtractFails("src")
    \/ \E fault \in {"open", "save"} : CreateFails("ana", fault)
    \/ \E fault \in {"open", "save"} : UpdateFails("ana", fault)
    \/ \E fault \in {"read", "open", "save"} : SyncFails("ana", fault)

SpecIO == Init /\ [][NextIO]_vars

-----------------------------------------------------------------------------
(* Two sync_excel_to_ifc calls on the same analysis file, in steps of their *)
(* own: read the table and open the model (lines 397-400), write the rows   *)
(* into the model in memory (405-439), save it (442).  Nothing in the code  *)
(* keeps one call from starting while another is between open and save.     *)

\* lines 397-400: pd.read_excel(excel_path), ifcopenshell.open(analysis_ifc_path)
SyncOpen(c, p, tbl) ==
    /\ now <= MaxOps
    /\ calls[c].pc = "idle"
    /\ files[p].has
    /\ calls' = [calls EXCEPT ![c] =
                    [pc |-> "open", tbl |-> tbl, base |-> files[p].elems,
                     mem |-> files[p].elems]]
    /\ UNCHANGED <<files, df, excel, now, last>>
    /\ UNCHANGED session

\* lines 405-439: the rows are written into the model the call holds
SyncWrite(c) ==
    /\ calls[c].pc = "open"
    /\ calls' = [calls EXCEPT ![c].pc = "written",
                              ![c].mem = SyncModel(calls[c].mem, calls[c].tbl)]
    /\ UNCHANGED <<files, df, excel, now, last>>
    /\ UNCHANGED session

\* lines 442-445: ifc.write(analysis_ifc_path), return True
SyncSave(c, p) ==
    /\ calls[c].pc = "written"
    /\ files' = [files EXCEPT ![p] = File(calls[c].mem, now)]
    /\ calls' = [calls EXCEPT ![c].pc = "done"]
    /\ last' = Op("sync", p, p, files[p].elems, calls[c].tbl, "True")
    /\ now' = now + 1
    /\ UNCHANGED <<df, excel>>
    /\ UNCHANGED session

\* the tables the two sessions sync: the saved table, or the saved table with
\* one property cell edited
PropertyEdited(tbl) ==
    {tbl} \cup {ApplyEdit(tbl, cell) : cell \in {e \in EditCells(tbl) : e[2] # GUID}}

NextRace ==
    \/ RunWorkflow
    \/ SaveDataframeToExcel
    \/ \E c \in Calls :
          excel.has /\ \E tbl \in PropertyEdited(ReadExcel(excel)) : SyncOpen(c, "ana", tbl)
    \/ \E c \in Calls : SyncWrite(c)
    \/ \E c \in Calls : SyncSave(c, "ana")

SpecRace == Init /\ [][NextRace]_vars

-----------------------------------------------------------------------------
(* One pass of sync_excel_to_ifc or create_analysis_ifc in steps, with an   *)
(* element or a row whose processing raises: the model is opened (lines     *)
(* 400, 221), the loop runs over the model in memory (405-439, 232-279),    *)
(* the model is saved (442, 285).  The handlers of lines 437-439 and        *)
(* 277-279 catch what a row or an element raises and continue; nothing      *)
(* undoes what the row or the element wrote before it raised.               *)

\* a pass in which nothing raises
NoFault == [at |-> 0, point |-> "none"]

\* where the processing of a row raises: at the lookup of line 408, before any
\* write, or at the second write of the row, after the first
RowPoints == {"lookup", "second"}

\* where the annotation of an element raises: at the read of line 234, at the
\* creation or the filling of G55_Prosjektinfo (238, 244), at the creation or
\* the filling of G55_LCA (248, 270)
ElementPoints == {"get_psets", "add_info", "edit_info", "add_lca", "edit_lca"}

\* the cells of a row written before the row raises: the cells that pass the
\* filter of line 412, in column order, up to the one that raises
RECURSIVE SyncCellsUntil(_, _, _, _)
SyncCellsUntil(e, row, cols, n) ==
    IF cols = <<>> THEN e
    ELSE IF HasDot(cols[1]) /\ NotNa(row[cols[1]]) /\ ~StartsWithUnderscore(cols[1])
         THEN IF n = 0 THEN e
              ELSE LET written == SyncCell(e, cols[1], row[cols[1]])
                   IN IF written = e THEN SyncCellsUntil(e, row, Tail(cols), n - 1)
                      ELSE SyncCellsUntil(written, row, Tail(cols), n - 1)
         ELSE SyncCellsUntil(e, row, Tail(cols), n)

\* one iteration of lines 405-439 for a row that raises: the writes made before
\* the exception stay in the model, the handler continues with the next row
SyncRowRaising(model, row, cols, point) ==
    LET at == by_guid(model, row[GUID].s)
    IN IF at = 0 \/ ~NotNa(row[GUID]) \/ point = "lookup" THEN model
       ELSE [model EXCEPT ![at] = SyncCellsUntil(@, row, cols, 1)]

\* lines 405-439 over the rows from the i-th on, with the fault of the pass
RECURSIVE SyncRowsFrom(_, _, _, _)
SyncRowsFrom(model, tbl, i, fault) ==
    IF i > Len(tbl.rows) THEN model
    ELSE LET synced == IF fault.at = i
                       THEN SyncRowRaising(model, tbl.rows[i], tbl.cols, fault.point)
                       ELSE SyncRow(model, tbl.rows[i], tbl.cols)
         IN IF synced = model THEN SyncRowsFrom(model, tbl, i + 1, fault)
            ELSE SyncRowsFrom(synced, tbl, i + 1, fault)

\* lines 234-270 for an element whose annotation raises at the given point: a
\* call that is not made, because the set is there, raises nothing
AnnotateRaising(e, basert_pa_ifc, t, point) ==
    LET psets == get_psets(e)
        info  == AddProsjektinfo(e, psets, t)
    IN CASE point = "get_psets" -> e
         [] point = "add_info" ->
               IF DictHas(psets, N("G55_Prosjektinfo")) THEN AddLCA(info, psets, basert_pa_ifc)
               ELSE e
         [] point = "edit_info" ->
               IF DictHas(psets, N("G55_Prosjektinfo")) THEN AddLCA(info, psets, basert_pa_ifc)
               ELSE add_pset(e, N("G55_Prosjektinfo"))
         [] point = "add_lca" ->
               info
         [] OTHER ->
               IF DictHas(psets, N("G55_LCA")) THEN info
               ELSE add_pset(info, N("G55_LCA"))

\* a loop that the exception of an element ends
AnnotateFromAbort(model, basert_pa_ifc, t, fault) ==
    [i \in 1..Len(model) |->
        IF fault.at = 0 \/ i < fault.at THEN Annotate(model[i], basert_pa_ifc, t)
        ELSE IF i = fault.at THEN AnnotateRaising(model[i], basert_pa_ifc, t, fault.point)
        ELSE model[i]]

\* lines 232-279 with the fault of the pass: the handler of lines 277-279
\* continues with the next element
AnnotateFrom(model, basert_pa_ifc, t, fault) ==
    [i \in 1..Len(model) |->
        IF fault.at = i THEN AnnotateRaising(model[i], basert_pa_ifc, t, fault.point)
        ELSE Annotate(model[i], basert_pa_ifc, t)]

\* the faults a pass can meet
Faults(call) ==
    {NoFault} \cup
    IF call.kind = "sync"
    THEN {[at |-> i, point |-> pt] : i \in 1..Len(call.tbl.rows), pt \in RowPoints}
    ELSE {[at |-> k, point |-> pt] : k \in 1..Len(call.base), pt \in ElementPoints}

\* a loop that saves the model after every row
DuringPassStreaming(f, mem, t) == File(mem, t)

\* the file on storage while the loop runs: the loops of lines 405-439 and
\* 232-279 hold no write
DuringPass(f, mem, t) == f

\* the model is opened: ifcopenshell.open, lines 400 and 221
PassOpen(c, kind, inp, out, tbl) ==
    /\ now <= MaxOps
    /\ calls[c].pc = "idle"
    /\ \A d \in Calls : calls[d].pc \in {"idle", "done", "failed"}
    /\ files[inp].has
    /\ calls' = [calls EXCEPT ![c] =
                    [pc |-> "open", kind |-> kind, inp |-> inp, out |-> out, tbl |-> tbl,
                     base |-> files[inp].elems, mem |-> files[inp].elems,
                     fault |-> NoFault]]
    /\ UNCHANGED <<files, df, excel, now, last>>
    /\ UNCHANGED session

\* the loop over the rows or the elements, lines 405-439 and 232-279
PassWrite(c, fault) ==
    /\ calls[c].pc = "open"
    /\ LET call == calls[c]
           mem  == IF call.kind = "sync"
                   THEN SyncRowsFrom(call.mem, call.tbl, 1, fault)
                   ELSE AnnotateFrom(call.mem,
                                     BasertPaIfc(FileName(call.inp), files[call.inp].mtime),
                                     now, fault)
       IN /\ calls' = [calls EXCEPT ![c].pc = "written", ![c].mem = mem, ![c].fault = fault]
          /\ files' = [files EXCEPT ![call.out] = DuringPass(@, mem, now)]
    /\ UNCHANGED <<df, excel, now, last>>
    /\ UNCHANGED session

\* the save and the return, lines 442-445 and 285-291
PassSave(c) ==
    /\ calls[c].pc = "written"
    /\ files' = [files EXCEPT ![calls[c].out] = File(calls[c].mem, now)]
    /\ calls' = [calls EXCEPT ![c].pc = "done"]
    /\ last' = Op(IF calls[c].kind = "sync" THEN "sync" ELSE "create_analysis",
                  calls[c].inp, calls[c].out, files[calls[c].out].elems, calls[c].tbl,
                  IF calls[c].kind = "sync" THEN "True" ELSE "path")
    /\ now' = now + 1
    /\ UNCHANGED <<df, excel>>
    /\ UNCHANGED session

\* the call ends before its save: the model cannot be opened, or the progress
\* callback of lines 281-282 raises
PassAbort(c) ==
    /\ calls[c].pc \in {"open", "written"}
    /\ calls' = [calls EXCEPT ![c].pc = "failed"]
    /\ UNCHANGED <<files, df, excel, now, last>>
    /\ UNCHANGED session

\* the spreadsheets the sync pass reads: the table of the analysis model as
\* extracted and saved, or that table with one property cell edited
Spreadsheets(p) ==
    IF files[p].has
    THEN PropertyEdited(ReadExcel(ExtractTable(files[p].elems, FileName(p), now)))
    ELSE {}

NextPass ==
    \/ PassOpen("b", "annotate", "src", "ana", NoTable)
    \/ \E tbl \in Spreadsheets("ana") : PassOpen("a", "sync", "ana", "ana", tbl)
    \/ \E c \in Calls : calls[c].pc = "open" /\ \E fault \in Faults(calls[c]) : PassWrite(c, fault)
    \/ \E c \in Calls : PassSave(c)
    \/ \E c \in Calls : PassAbort(c)

SpecPass == Init /\ [][NextPass]_vars

-----------------------------------------------------------------------------
(* The extraction, the annotation and the sync on elements chosen for the  *)
(* scans of lines 125-134 (Floor) and 250-258 (Original_MMI) and for the   *)
(* column names of lines 160 and 414.                                      *)

\* a wall whose set P holds the property MMI with a value
MmiElem(g) == Elem(g, "IfcWall", << PSet(N("P"), << <<N("MMI"), S("300")>> >>) >>, <<>>)

\* a wall whose set P holds an empty property MMI before the property mmi_kode
\* with a value
MmiLaterElem(g) ==
    Elem(g, "IfcWall",
         << PSet(N("P"), << <<N("MMI"), S("")>>, <<N("mmi_kode"), S("300")>> >>) >>, <<>>)

\* a wall whose set P holds an empty property MMI and whose set Q holds the
\* property mmi_kode with a value
MmiNextSetElem(g) ==
    Elem(g, "IfcWall",
         << PSet(N("P"), << <<N("MMI"), S("")>> >>),
            PSet(N("Q"), << <<N("mmi_kode"), S("200")>> >>) >>, <<>>)

\* a wall contained in a storey that has a long name and no name
NamelessStoreyElem(g) ==
    [Elem(g, "IfcWall", <<SetS>>, <<>>)
        EXCEPT !.contained = << [kind |-> "IfcBuildingStorey", name |-> None,
                                 longname |-> S("Level 1")] >>]

\* a wall contained in a space and, after it, in two storeys
TwoStoreysElem(g) ==
    [Elem(g, "IfcWall", <<SetS>>, <<>>)
        EXCEPT !.contained = << [kind |-> "IfcSpace", name |-> S("Room"), longname |-> None],
                                [kind |-> "IfcBuildingStorey", name |-> S("Plan 2"),
                                 longname |-> S("Level 2")],
                                [kind |-> "IfcBuildingStorey", name |-> S("Plan 3"),
                                 longname |-> None] >>]

\* a space contained in a storey: a spatial container itself
SpaceElem(g) ==
    [Elem(g, "IfcSpace", <<SetS>>, <<>>)
        EXCEPT !.contained = << [kind |-> "IfcBuildingStorey", name |-> S("Plan 1"),
                                 longname |-> None] >>]

\* a wall whose set A holds a property named "B.c", and no set "A.B"
DotPropElem(g) ==
    Elem(g, "IfcWall", << PSet(N("A"), << <<ColName(N("B"), N("c")), S("1")>> >>) >>, <<>>)

UnitElems ==
    {MmiElem("g1"), MmiLaterElem("g1"), MmiNextSetElem("g1"), NamelessStoreyElem("g1"),
     TwoStoreysElem("g1"), SpaceElem("g1"), DotPropElem("g1")}

UnitModels == {<<e, SlabElem("g2")>> : e \in UnitElems}

InitUnit ==
    /\ calls = [c \in Calls |-> Idle]
    /\ session = NewSession
    /\ \E m \in UnitModels :
          files = [p \in Paths |-> IF p = "src" THEN File(m, 0) ELSE NoFile]
    /\ df = NoTable
    /\ excel = NoTable
    /\ now = 1
    /\ last = Op("init", "src", "src", <<>>, NoTable, "None")

NextUnit ==
    \/ RunWorkflow
    \/ ExtractIfcToExcel("ana")
    \/ CreateAnalysisIfc("src")
    \/ SaveDataframeToExcel
    \/ excel.has /\ SyncExcelToIfc("ana", ReadExcel(excel))

SpecUnit == InitUnit /\ [][NextUnit]_vars

-----------------------------------------------------------------------------
(* The path of the analysis copy, lines 205-213, for the file names a       *)
(* caller can pass as custom_filename / analysis_ifc_filename.  A path is   *)
(* the sequence of its components, "/" first when it is absolute.          *)

\* self.input_folder / ifc_filename
SourcePath == <<"input", "x.ifc">>

\* ifc_path.parent
Parent(path) == SubSeq(path, 1, Len(path) - 1)

\* pathlib's a / b: an absolute b replaces a
JoinPath(dir, name) == IF name # <<>> /\ name[1] = "/" THEN name ELSE dir \o name

\* the file a path names: the file system follows ".." to the parent
RECURSIVE Resolve(_, _)
Resolve(done, path) ==
    IF path = <<>> THEN done
    ELSE IF path[1] = ".." THEN Resolve(Parent(done), Tail(path))
    ELSE Resolve(Append(done, path[1]), Tail(path))

\* the file names passed as custom_filename: a plain name, a name that climbs
\* out of the folder "Skiplum demo", the default name
CustomNames == {<<"custom.ifc">>, <<"..", "x.ifc">>, <<"x_analyse.ifc">>}

\* lines 205-213 with custom_filename: skiplum_folder / analysis_name
AnalysisPathNamed(ifc_path, custom_filename) ==
    JoinPath(Parent(ifc_path) \o <<"Skiplum demo">>, custom_filename)

\* the stored file a path names
StoredAt(path) ==
    LET file == Resolve(<<>>, path)
    IN CASE file = SourcePath -> "src"
         [] file = <<"input", "Skiplum demo", "x_analyse.ifc">> -> "ana"
         [] file = <<"input", "Skiplum demo", "custom.ifc">> -> "cust"
         [] OTHER -> "ana2"

\* run_workflow(ifc_filename, analysis_ifc_filename = custom_filename), lines
\* 467-508: line 488 passes the name on to create_analysis_ifc
RunWorkflowNamed(custom_filename) ==
    /\ now <= MaxOps
    /\ files["src"].has
    /\ LET out == StoredAt(AnalysisPathNamed(SourcePath, custom_filename))
       IN /\ files' = [files EXCEPT ![out] =
                          File(AnalysisModel(files["src"].elems, FileName("src"),
                                             files["src"].mtime, now), now)]
          /\ last' = Op("run_workflow", "src", out, files[out].elems, NoTable,
                        WorkflowResult("none"))
    /\ df' = ExtractTable(files["src"].elems, FileName("src"), now)
    /\ now' = now + 1
    /\ UNCHANGED excel
    /\ UNCHANGED <<calls, session>>

NextPaths ==
    \/ RunWorkflow
    \/ \E custom_filename \in CustomNames : RunWorkflowNamed(custom_filename)
    \/ ExtractIfcToExcel("src")
    \/ CreateAnalysisIfc("src")
    \/ df.has /\ UpdateIfcFromDataframe("ana", df)
    \/ SaveDataframeToExcel
    \/ excel.has /\ SyncExcelToIfc("ana", ReadExcel(excel))

SpecPaths == Init /\ [][NextPaths]_vars

-----------------------------------------------------------------------------
(* The 'analyse' button handlers of the dashboard, streamlit_dashboard.py   *)
(* lines 213-244 and 264-295: the handler sets is_processing, calls         *)
(* run_workflow and resets the flag where it handles the outcome.  The      *)
(* controls are rendered disabled when the flag is set as the script runs.  *)

\* lines 213-215, 264-266: the button is clicked; the script renders the page
\* with the flag as it is, then the handler sets the flag
ClickAnalyse ==
    /\ now <= MaxOps
    /\ session.pc = "idle"
    /\ ~session.disabled
    /\ session' = [is_processing |-> TRUE, pc |-> "running",
                   disabled |-> session.is_processing]
    /\ UNCHANGED <<files, df, excel, now, last, calls>>

\* lines 227-240, 278-291: run_workflow returns its dict; the handler stores
\* it, resets the flag and reruns the script
AnalyseReturnsResult ==
    /\ session.pc = "running"
    /\ files["src"].has
    /\ df' = ExtractTable(files["src"].elems, FileName("src"), now)
    /\ files' = [files EXCEPT !["ana"] =
                    File(AnalysisModel(files["src"].elems, FileName("src"),
                                       files["src"].mtime, now), now)]
    /\ last' = Op("run_workflow", "src", "ana", files["ana"].elems, NoTable,
                  WorkflowResult("none"))
    /\ now' = now + 1
    /\ session' = NewSession
    /\ UNCHANGED <<excel, calls>>

\* lines 234, 285: "if result:" has no else branch; after a None result the
\* script runs to its end with the flag as the handler set it
AfterNone(s) == [s EXCEPT !.pc = "idle"]

\* run_workflow returns None, lines 469-471 of ifc_sync_simple.py: the file is
\* not in the input folder any more
AnalyseReturnsNone ==
    /\ session.pc = "running"
    /\ last' = Op("run_workflow", "absent", "absent", <<>>, NoTable, "None")
    /\ now' = now + 1
    /\ session' = AfterNone(session)
    /\ UNCHANGED <<files, df, excel, calls>>

\* lines 241-244, 292-295: run_workflow raises; the handler shows the error,
\* resets the flag and reruns the script
AnalyseRaises(fault) ==
    /\ session.pc = "running"
    /\ files["src"].has
    /\ IF fault = "save"
       THEN \E f \in AfterFailedWrite(files["ana"]) : files' = [files EXCEPT !["ana"] = f]
       ELSE files' = files
    /\ last' = Failed("run_workflow", "src", "ana", files["ana"].elems, fault,
                      WorkflowResult(fault))
    /\ now' = now + 1
    /\ session' = NewSession
    /\ UNCHANGED <<df, excel, calls>>

\* any other interaction reruns the script: the controls are rendered with the
\* flag as it is, lines 195, 214, 256, 265
Rerun ==
    /\ session.pc = "idle"
    /\ session.disabled # session.is_processing
    /\ session' = [session EXCEPT !.disabled = session.is_processing]
    /\ UNCHANGED <<files, df, excel, now, last, calls>>

\* the handler that runs comes to its end
AnalyseReturns ==
    \/ AnalyseReturnsNone
    \/ AnalyseReturnsResult
    \/ \E fault \in {"open", "save"} : AnalyseRaises(fault)

NextUI ==
    \/ ClickAnalyse
    \/ AnalyseReturnsResult
    \/ AnalyseReturnsNone
    \/ \E fault \in {"open", "save"} : AnalyseRaises(fault)
    \/ Rerun

\* a handler that has started runs to its end; nothing makes the user click
SpecUI == Init /\ [][NextUI]_vars /\ WF_vars(AnalyseReturns)

-----------------------------------------------------------------------------
(* What the properties below read off a state: the operation that ran last, *)
(* the target model before it (last.pre) and after it (Post), and the table *)
(* it was given (last.tbl).                                                *)

Post == files[last.out].elems

Synced == last.op = "sync" /\ last.ret = "True"

Updated == last.op = "update" /\ last.ret = "True"

\* the positions of the elements of a model that carry the global id of a row
Resolved(model, row) ==
    {k \in 1..Len(model) : NotNa(row[GUID]) /\ model[k].guid = row[GUID].s}

\* the columns of a table whose cell in a row the sync writes
Written(tbl, row) ==
    {c \in ColSet(tbl.cols) : HasDot(c) /\ ~StartsWithUnderscore(c) /\ NotNa(row[c])}

Rows(tbl) == {tbl.rows[i] : i \in 1..Len(tbl.rows)}

\* element k of the model is the element of exactly one row of the table
Sole(model, tbl, k) ==
    Cardinality({i \in 1..Len(tbl.rows) : k \in Resolved(model, tbl.rows[i])}) = 1

\* the own sets of an element, by position
OwnSets(e) == 1..Len(e.psets)

\* C1: a sync leaves every property of an element's own sets for which the
\* element's row carries no present cell with exactly the value it had before:
\* writing S.a never erases or changes the sibling S.b.
C1_SyncKeepsSiblings ==
    Synced =>
        \A k \in 1..Len(last.pre) :
            \A j \in OwnSets(last.pre[k]) :
                LET before == last.pre[k].psets[j]
                    after  == Post[k].psets[j]
                IN \A p \in DictKeys(before.props) :
                      (\A row \in Rows(last.tbl) :
                          k \in Resolved(last.pre, row) =>
                              \A c \in Written(last.tbl, row) :
                                  RSplit(c) # <<before.name, p>>)
                      => /\ after.name = before.name
                         /\ DictHas(after.props, p)
                         /\ DictGet(after.props, p) = DictGet(before.props, p)

\* a sync wrote "GJEN" to S.a of an element whose set S also holds b, for which
\* its row has no value: b is still there, unset as before
C1_Witness ==
    /\ Synced
    /\ \E row \in Rows(last.tbl) :
          /\ 1 \in Resolved(last.pre, row)
          /\ ColName(N("S"), N("a")) \in Written(last.tbl, row)
          /\ ColName(N("S"), N("b")) \in ColSet(last.tbl.cols) \ Written(last.tbl, row)
    /\ last.pre[1].psets[1] = PSet(N("S"), << <<N("a"), I("1")>>, <<N("b"), None>> >>)
    /\ Post[1].psets[1] = PSet(N("S"), << <<N("a"), S("GJEN")>>, <<N("b"), None>> >>)

\* what get_psets reports for one property of an element: <<TRUE, value>> when
\* the set is reported and holds the property, <<FALSE, None>> otherwise
Reported(e, pset_name, prop_name) ==
    LET psets == get_psets(e)
    IN IF DictHas(psets, pset_name) /\ DictHas(DictGet(psets, pset_name), prop_name)
       THEN <<TRUE, DictGet(DictGet(psets, pset_name), prop_name)>>
       ELSE <<FALSE, None>>

\* C2: after a sync, for every row that resolves to an element and every cell
\* S.p it writes with value v, if the property-set read reported set S on the
\* element before the sync, the read reports S.p = str(v) after it.
C2_SyncWritesReportedSet ==
    Synced =>
        \A row \in Rows(last.tbl) :
            \A k \in Resolved(last.pre, row) :
                \A c \in Written(last.tbl, row) :
                    DictHas(get_psets(last.pre[k]), RSplit(c)[1])
                    => Reported(Post[k], RSplit(c)[1], RSplit(c)[2]) = <<TRUE, Str(row[c])>>

\* the positions of the own sets of an element that carry a name
Named(e, pset_name) == {j \in OwnSets(e) : e.psets[j].name = pset_name}

\* the cells of a row that the sync writes into set pset_name, as property/value
\* pairs
CellsOf(tbl, row, pset_name) ==
    {<<RSplit(c)[2], Str(row[c])>> : c \in {w \in Written(tbl, row) : RSplit(w)[1] = pset_name}}

Pairs(props) == {props[i] : i \in 1..Len(props)}

Known(model, tbl) ==
    [tbl EXCEPT !.rows = SelectSeq(tbl.rows, LAMBDA row : Resolved(model, row) # {})]

\* C4: a sync or a fast update of an existing model returns True and saves the
\* model, whatever rows the table holds; the saved model is the one the rows
\* with a known global id alone produce, and an element no row resolves to is
\* as it was.
C4_UnresolvedRowSkipped ==
    (last.op \in {"sync", "update"} /\ files[last.out].has) =>
        /\ last.ret = "True"
        /\ files[last.out].mtime = now - 1
        /\ last.op = "sync" => Post = SyncModel(last.pre, Known(last.pre, last.tbl))
        /\ last.op = "update" => Post = UpdateModel(last.pre, Known(last.pre, last.tbl))
        /\ \A k \in 1..Len(last.pre) :
              (\A row \in Rows(last.tbl) : k \notin Resolved(last.pre, row))
              => Post[k] = last.pre[k]

\* a sync of a table with a row of unknown global id "gX" and a row that
\* resolves: the resolved element was written, the other is as it was, the
\* model was saved and the result is True
C4_Witness ==
    /\ Synced
    /\ files[last.out].mtime = now - 1
    /\ \E row \in Rows(last.tbl) : row[GUID] = S("gX") /\ Resolved(last.pre, row) = {}
    /\ \E row \in Rows(last.tbl) :
          /\ Resolved(last.pre, row) = {1}
          /\ Written(last.tbl, row) # {}
    /\ Post[1] # last.pre[1]
    /\ Post[2] = last.pre[2]

Prosjektinfo == N("G55_Prosjektinfo")

LCA == N("G55_LCA")

\* an annotation pass ran last: its input model
Annotated == last.op \in {"run_workflow", "create_analysis"}

Input == files[last.inp].elems

HasAnnotation(e) == DictHas(get_psets(e), Prosjektinfo) /\ DictHas(get_psets(e), LCA)

NoAnnotation(e) == ~DictHas(get_psets(e), Prosjektinfo) /\ ~DictHas(get_psets(e), LCA)

\* C5: an annotation pass over a model leaves every element that carries
\* G55_Prosjektinfo and G55_LCA already with the property sets it had: the
\* same sets, the same properties, the same values, creation time and status
\* included.
C5_AnnotationIdempotent ==
    Annotated =>
        \A k \in 1..Len(Input) :
            HasAnnotation(Input[k]) =>
                /\ Post[k].psets = Input[k].psets
                /\ get_psets(Post[k]) = get_psets(Input[k])

\* the analysis copy, its status set to "GJEN" by an update since it was made at
\* time 1, was annotated again at time 3: the second copy holds the same sets,
\* made at time 1 and with status "GJEN"
C5_Witness ==
    /\ last.op = "create_analysis"
    /\ last.inp = "ana"
    /\ now = 4
    /\ HasAnnotation(Input[1])
    /\ Reported(Input[1], LCA, N("Gjenbruksstatus")) = <<TRUE, S("GJEN")>>
    /\ Reported(Post[1], LCA, N("Gjenbruksstatus")) = <<TRUE, S("GJEN")>>
    /\ Reported(Post[1], Prosjektinfo, N("Opprettet")) = <<TRUE, S(IsoTime(1))>>
    /\ files["ana2"].elems = files["ana"].elems

\* flatten(element): the composite keys of lines 157-161 and their values
Flat(e) == DictUpdate(<<>>, FlatPsets(get_psets(e)))

\* C6: for an element without analysis annotation, every key of its flattened
\* mapping is a key of the mapping after the annotation pass, with the same
\* value, and every key the pass added is a key of G55_Prosjektinfo or G55_LCA.
C6_AnnotationFrame ==
    Annotated =>
        \A k \in 1..Len(Input) :
            NoAnnotation(Input[k]) =>
                LET before == Flat(Input[k])
                    after  == Flat(Post[k])
                IN /\ \A c \in DictKeys(before) :
                        DictHas(after, c) /\ DictGet(after, c) = DictGet(before, c)
                   /\ \A c \in DictKeys(after) \ DictKeys(before) :
                        c[1] \in {"G55_Prosjektinfo", "G55_LCA"} /\ c[2] = Dot
                   /\ Len(after) = Len(before) + Len(ProsjektinfoProps(0))
                                       + Len(LCAProps("", "", ""))

\* run_workflow annotated a wall with set S {a, b} and no annotation: the copy
\* flattens to S.a, S.b as before and to the keys of the two new sets
C6_Witness ==
    /\ last.op = "run_workflow"
    /\ NoAnnotation(Input[1])
    /\ Flat(Input[1]) = << <<ColName(N("S"), N("a")), S("1")>>,
                           <<ColName(N("S"), N("b")), S("2")>> >>
    /\ SubSeq(Flat(Post[1]), 1, 2) = Flat(Input[1])
    /\ Len(Flat(Post[1])) = 13
    /\ DictGet(Flat(Post[1]), StatusCol) = S("NY")

\* C7: run_workflow leaves the values G55_LCA holds in the analysis copy as they
\* were before it ran, for every element that carried the set there.
C7_AnalysisValuesKept ==
    last.op = "run_workflow" =>
        \A k \in 1..Len(last.pre) :
            DictHas(get_psets(last.pre[k]), LCA) =>
                \A p \in DictKeys(DictGet(get_psets(last.pre[k]), LCA)) :
                    Reported(Post[k], LCA, p) = Reported(last.pre[k], LCA, p)

Extracted == last.op \in {"run_workflow", "extract"}

\* the elements of a model whose row construction raises nothing
Processed(model) == SelectSeq(model, LAMBDA e : ~e.malformed)

\* the (set, property) pairs the property-set read reports on an element, each
\* with the value the flattening gives it
PairsOn(e) ==
    LET psets == get_psets(e)
    IN UNION {{<<psets[i][1], psets[i][2][j][1],
                 IF psets[i][2][j][2] = None THEN S("") ELSE psets[i][2][j][2]>> :
                  j \in 1..Len(psets[i][2])} : i \in 1..Len(psets)}

\* C9: the table of an extraction has one row per processed element and a
\* column Set.Property for every pair on any of them; every row has exactly the
\* columns of the table; a property cell of a row is NaN when the row's element
\* has no pair of that column name, and the value of such a pair of that very
\* element otherwise.
C9_ColumnUnion ==
    Extracted =>
        LET elems == Processed(Input)
        IN /\ Len(df.rows) = Len(elems)
           /\ Cardinality(ColSet(df.cols)) = Len(df.cols)
           /\ \A k \in 1..Len(elems) :
                 /\ DOMAIN df.rows[k] = ColSet(df.cols)
                 /\ df.rows[k][GUID] = S(elems[k].guid)
                 /\ \A pr \in PairsOn(elems[k]) : ColName(pr[1], pr[2]) \in ColSet(df.cols)
                 /\ \A c \in {d \in ColSet(df.cols) : HasDot(d)} :
                       LET own == {pr \in PairsOn(elems[k]) : ColName(pr[1], pr[2]) = c}
                       IN IF own = {} THEN df.rows[k][c] = NaN
                          ELSE \E pr \in own : df.rows[k][c] = pr[3]

\* run_workflow extracted a wall with S.a and a slab with Y.q: both columns
\* are there, each row holds its own value and NaN in the other's column
C9_Witness ==
    /\ last.op = "run_workflow"
    /\ {ColName(N("S"), N("a")), ColName(N("Y"), N("q"))} \subseteq ColSet(df.cols)
    /\ df.rows[1][ColName(N("S"), N("a"))] = S("1")
    /\ df.rows[1][ColName(N("Y"), N("q"))] = NaN
    /\ df.rows[2][ColName(N("S"), N("a"))] = NaN
    /\ df.rows[2][ColName(N("Y"), N("q"))] = S("3")

\* the (set, property) pairs of the own sets of an element
OwnPairs(e) ==
    UNION {{<<e.psets[j].name, e.psets[j].props[i][1]>> : i \in 1..Len(e.psets[j].props)} :
              j \in OwnSets(e)}

\* C10: for every pair (S, P) on an element that was extracted, the column name
\* S.P splits on its last '.' into (S, P) and no other pair of the element has
\* that column name; and a sync writes the present cell of column S.P of an
\* element's row to the property P of its own set S.
C10_ColumnRoundTrip ==
    /\ Extracted =>
          \A k \in 1..Len(Input) :
              \A pr \in PairsOn(Input[k]) :
                  /\ RSplit(ColName(pr[1], pr[2])) = <<pr[1], pr[2]>>
                  /\ \A other \in PairsOn(Input[k]) :
                        ColName(other[1], other[2]) = ColName(pr[1], pr[2])
                        => <<other[1], other[2]>> = <<pr[1], pr[2]>>
    /\ Synced =>
          \A row \in Rows(last.tbl) :
              \A k \in Resolved(last.pre, row) :
                  \A pr \in OwnPairs(last.pre[k]) :
                      ColName(pr[1], pr[2]) \in Written(last.tbl, row)
                      => Reported(Post[k], pr[1], pr[2])
                             = <<TRUE, Str(row[ColName(pr[1], pr[2])])>>

\* C11: the table of an extraction has exactly one row for each element whose
\* row construction raised nothing, in the order of the elements, each with all
\* the cells of its element's row; no row carries the global id of an element
\* whose row construction raised.
C11_RowErrorIsolation ==
    Extracted =>
        LET elems == Processed(Input)
        IN /\ [i \in 1..Len(df.rows) |-> df.rows[i][GUID]]
                  = [i \in 1..Len(elems) |-> S(elems[i].guid)]
           /\ \A i \in 1..Len(elems) :
                 \A cell \in Pairs(RowOf(elems[i])) : df.rows[i][cell[1]] = cell[2]
           /\ \A k \in 1..Len(Input) :
                 Input[k].malformed =>
                     \A row \in Rows(df) : row[GUID] # S(Input[k].guid)

\* run_workflow extracted a model whose first element has a malformed material
\* reference: the table has one row, that of the second element
C11_Witness ==
    /\ last.op = "run_workflow"
    /\ Len(Input) = 2
    /\ Input[1].malformed
    /\ ~Input[2].malformed
    /\ Len(df.rows) = 1
    /\ df.rows[1][GUID] = S("g2")
    /\ df.rows[1][N("Material")] = S("Concrete | Insulation")

\* C12: a step of run_workflow that returns its result writes the analysis copy
\* at the derived path, or at the custom file name, and changes no other file:
\* the spreadsheet file is as it was; the result holds the keys 'analysis_ifc'
\* and 'dataframe' and no other.  Every step that changes the spreadsheet file
\* is a step of save_dataframe_to_excel.
C12_WorkflowFiles ==
    [][ /\ (last'.op = "run_workflow" /\ last'.ret = "dict") =>
              /\ last'.out \in {AnalysisPath(last'.inp), "cust"}
              /\ files'[last'.out] =
                    File(AnalysisModel(files[last'.inp].elems, FileName(last'.inp),
                                       files[last'.inp].mtime, now), now)
              /\ \A p \in Paths \ {last'.out} : files'[p] = files[p]
              /\ excel' = excel
              /\ df'.has
              /\ ResultKeys = {"analysis_ifc", "dataframe"}
        /\ excel' # excel => last'.op = "save_excel" ]_vars

\* run_workflow with a custom file name has returned: the copy is there under
\* that name, there is no copy under the derived name and no spreadsheet file
C12_Witness ==
    /\ last.op = "run_workflow"
    /\ last.ret = "dict"
    /\ last.out = "cust"
    /\ files["cust"].has
    /\ ~files["ana"].has
    /\ ~files["ana2"].has
    /\ df.has
    /\ ~excel.has

\* C13: in the model file an operation has written, and in the source model
\* to begin with, the own property sets of an element have pairwise different
\* names, and the property-set read reports each name once.
C13_SetNamesUnique ==
    \A k \in 1..Len(Post) :
        LET own      == Post[k].psets
            reported == get_psets(Post[k])
        IN /\ Cardinality({own[j].name : j \in 1..Len(own)}) = Len(own)
           /\ Cardinality(DictKeys(reported)) = Len(reported)

\* a sync of a row that carries Y.q and Y.r, for an element that had no set Y:
\* the element has one set Y, which holds both
C13_Witness ==
    /\ Synced
    /\ ~DictHas(get_psets(last.pre[1]), N("Y"))
    /\ \E row \in Rows(last.tbl) :
          /\ 1 \in Resolved(last.pre, row)
          /\ {ColName(N("Y"), N("q")), ColName(N("Y"), N("r"))} \subseteq Written(last.tbl, row)
    /\ Cardinality(Named(Post[1], N("Y"))) = 1
    /\ \A j \in Named(Post[1], N("Y")) :
          Post[1].psets[j].props = << <<N("q"), S("3")>>, <<N("r"), S("4")>> >>

\* C14: an operation that writes the analysis copy leaves every element with
\* every property set the copy held for it before, and every set with every
\* property it held.
C14_NothingDeleted ==
    (last.out = "ana" /\ last.op \in {"run_workflow", "update", "sync"}) =>
        \A k \in 1..Len(last.pre) :
            LET before == get_psets(last.pre[k])
                after  == get_psets(Post[k])
            IN \A i \in 1..Len(before) :
                  /\ DictHas(after, before[i][1])
                  /\ DictKeys(before[i][2]) \subseteq DictKeys(DictGet(after, before[i][1]))

\* a table restricted to the columns GUID and G55_LCA.Gjenbruksstatus
Restricted(tbl) ==
    LET cols == SelectSeq(tbl.cols, LAMBDA c : c \in {GUID, StatusCol})
    IN Table(cols, [i \in 1..Len(tbl.rows) |-> [c \in ColSet(cols) |-> tbl.rows[i][c]]])

\* C15: a fast update leaves the model as the general sync of the same table,
\* restricted to the columns GUID and G55_LCA.Gjenbruksstatus, would.
C15_FastPathIsSync ==
    Updated => Post = SyncModel(last.pre, Restricted(last.tbl))

\* C16: a sync or a fast update in which the spreadsheet could not be read, the
\* model could not be opened or was not there, or the save failed, returned
\* False.
C16_SyncFailureIsFalse ==
    last.op \in {"sync", "update"} =>
        /\ last.fault \in {"read", "open", "save"} => last.ret = "False"
        /\ ~files[last.out].has => last.ret = "False"
        /\ last.ret \in {"True", "False"}

\* a sync whose save failed: the caller got False, the file is unreadable
C16_Witness ==
    /\ last.op = "sync"
    /\ last.fault = "save"
    /\ last.ret = "False"
    /\ last.pre # <<>>
    /\ ~files["ana"].has

\* C17: extract_ifc_to_excel, create_analysis_ifc and run_workflow, when the
\* source file exists but could not be opened or the analysis copy could not be
\* saved, handed their caller None or False.
C17_WorkflowFailureIsResult ==
    (last.op \in {"extract", "create_analysis", "run_workflow"}
        /\ last.fault \in {"open", "save"})
    => last.ret \in {"None", "False"}

\* C18: a sync or a fast update in which no row of the table resolved to an
\* element did not return True; an extraction or a workflow in which the row
\* construction of every element raised did not return a table or a result.
C18_NoEmptySuccess ==
    /\ (last.op \in {"sync", "update"}
           /\ \A row \in Rows(last.tbl) : Resolved(last.pre, row) = {})
       => last.ret # "True"
    /\ (Extracted /\ Processed(Input) = <<>>) => last.ret \notin {"dict", "df"}

\* the writes of a call: the properties of own sets, by element, set name and
\* property name, that the model the call holds has and the model it opened
\* has not with that value
WritesOf(c) ==
    LET mem == calls[c].mem
        base == calls[c].base
        Before(k, name) == UNION {Pairs(base[k].psets[b].props) : b \in Named(base[k], name)}
        InSet(k, j) == {<<k, mem[k].psets[j].name, pair>> :
                           pair \in Pairs(mem[k].psets[j].props) \ Before(k, mem[k].psets[j].name)}
    IN UNION {UNION {InSet(k, j) : j \in OwnSets(mem[k])} : k \in 1..Len(mem)}

\* a write is in a model: the element has an own set of that name with that
\* property and value
Holds(model, w) ==
    \E j \in Named(model[w[1]], w[2]) : w[3] \in Pairs(model[w[1]].psets[j].props)

\* the table of a call has a present cell for the property of a write, in a row
\* of the element of the write
Targets(c, w) ==
    \E row \in Rows(calls[c].tbl) :
        /\ w[1] \in Resolved(calls[c].base, row)
        /\ \E col \in Written(calls[c].tbl, row) : RSplit(col) = <<w[2], w[3][1]>>

\* C19: when both calls have saved, the analysis file holds every property
\* either call wrote, but for a property the table of the other call has a
\* present cell for as well, of which it holds one of the two values: no write
\* of a completed call is lost.
C19_OverlappingSyncs ==
    (\A c \in Calls : calls[c].pc = "done") =>
        \A c \in Calls : \A w \in WritesOf(c) :
            \/ Holds(files["ana"].elems, w)
            \/ \E d \in Calls \ {c} : Targets(d, w)

\* the identity and metadata columns of a table
IdentityCols ==
    {GUID, N("BIM_ID"), N("Entity"), N("Name"), N("Type"), N("Material"), N("Floor"),
     N("Zone"), N("_source_file"), N("_extract_date")}

\* a present cell of an eligible column of a row of element k that names the
\* property of the pair in the set of that name, with the value of the pair
Caused(k, pset_name, pair) ==
    \E row \in Rows(last.tbl) :
        /\ k \in Resolved(last.pre, row)
        /\ \E c \in ColSet(last.tbl.cols) \ IdentityCols :
              /\ \E i \in 1..Len(c) : c[i] = Dot
              /\ c[1] \notin UnderscoreTokens
              /\ row[c].t \notin {"nan", "none"}
              /\ RSplit(c) = <<pset_name, pair[1]>>
              /\ pair[2] = Str(row[c])

\* C20: after a sync, every property an element has with a value it did not
\* have in that own set before, and every own set it did not have before, is
\* the target of a present cell of an element's row in a column whose name
\* contains '.', does not start with '_' and is not an identity or metadata
\* column; a NaN cell and an identity or metadata column cause no write and no
\* new set.
C20_EligibleColumns ==
    Synced =>
        /\ Len(Post) = Len(last.pre)
        /\ \A k \in 1..Len(Post) :
              /\ Len(Post[k].psets) >= Len(last.pre[k].psets)
              /\ \A j \in OwnSets(Post[k]) :
                    LET set == Post[k].psets[j]
                        old == IF j <= Len(last.pre[k].psets)
                               THEN Pairs(last.pre[k].psets[j].props) ELSE {}
                    IN /\ \A pair \in Pairs(set.props) \ old : Caused(k, set.name, pair)
                       /\ j > Len(last.pre[k].psets) =>
                             \E pair \in Pairs(set.props) : Caused(k, set.name, pair)

\* a sync that wrote a cell, of a table with an edited cell in a column that
\* starts with '_' and with a row whose element has no set for a NaN cell of the
\* row, before the sync or after it
C20_Witness ==
    /\ Synced
    /\ Post # last.pre
    /\ \E row \in Rows(last.tbl) : \E k \in Resolved(last.pre, row) :
          \E c \in ColSet(last.tbl.cols) :
              /\ HasDot(c) /\ StartsWithUnderscore(c)
              /\ row[c] = EditValue
              /\ \E j \in Named(Post[k], RSplit(c)[1]) :
                    <<RSplit(c)[2], EditValue>> \notin Pairs(Post[k].psets[j].props)
    /\ \E row \in Rows(last.tbl) : \E k \in Resolved(last.pre, row) :
          \E c \in ColSet(last.tbl.cols) :
              /\ HasDot(c) /\ ~StartsWithUnderscore(c)
              /\ row[c].t = "nan"
              /\ Named(last.pre[k], RSplit(c)[1]) = {}
              /\ Named(Post[k], RSplit(c)[1]) = {}

\* C21: a step of a sync or an annotation call changes a model file on storage
\* only when it is the save of a call whose loop has run over every row or
\* element, and the file is then the model the call holds; a call that has
\* saved or failed takes no further step, so it writes at most once; a call
\* that fails before its save leaves every file as it was.
C21_SinglePersistence ==
    [][/\ \A p \in Paths :
             files'[p] # files[p] =>
                 \E c \in Calls :
                     /\ calls[c].pc = "written" /\ calls'[c].pc = "done"
                     /\ calls[c].out = p
                     /\ files'[p].elems = calls[c].mem
       /\ \A c \in Calls :
             /\ calls[c].pc \in {"done", "failed"} => calls'[c] = calls[c]
             /\ calls'[c].pc = "failed" => files' = files]_vars

\* a sync call that failed after its loop had changed the model it holds: the
\* file on storage is the model it opened
C21_Witness ==
    /\ calls["a"].pc = "failed"
    /\ calls["a"].mem # calls["a"].base
    /\ files["ana"].elems = calls["a"].base
    /\ calls["b"].pc = "done"

\* a table without its i-th row
Without(tbl, i) ==
    [tbl EXCEPT !.rows = SubSeq(tbl.rows, 1, i - 1) \o SubSeq(tbl.rows, i + 1, Len(tbl.rows))]

\* the row of the fault of a sync call raises: it resolves to an element and, for
\* a fault at its second write, has two cells to write
Raises(call) ==
    /\ call.fault.at # 0
    /\ Resolved(call.base, call.tbl.rows[call.fault.at]) # {}
    /\ call.fault.point = "second" =>
          Cardinality(Written(call.tbl, call.tbl.rows[call.fault.at])) >= 2

\* C22: when the processing of a row of a sync raises partway through its
\* columns, the model the call holds after its loop, and saves, is the model
\* the table without that row produces: the row contributes no write, the
\* later rows are processed.
C22_FailedRowOmitted ==
    \A c \in Calls :
        (calls[c].pc \in {"written", "done"} /\ calls[c].kind = "sync" /\ Raises(calls[c])) =>
            calls[c].mem = SyncModel(calls[c].base, Without(calls[c].tbl, calls[c].fault.at))

\* the properties of the two annotation sets, lines 239-243 and 260-269
InfoSchema == {N("Prosjekt"), N("Opprettet"), N("Status")}

LCASchema ==
    {N("External_ID"), N("Basert_pa_IFC"), N("Original_MMI"), N("Gjenbruksstatus"),
     N("LCA_Status"), N("CO2_kg"), N("LCA_Method"), N("Notes")}

\* every set of that name the element is reported to carry has the properties
Complete(e, pset_name, schema) ==
    DictHas(get_psets(e), pset_name) =>
        \A prop \in schema : DictHas(DictGet(get_psets(e), pset_name), prop)

\* C23: when the annotation of one element raises, the annotation call still
\* saves the analysis copy and returns its path, and every other element of
\* the copy carries G55_Prosjektinfo and G55_LCA with all their properties.
C23_AnnotationIsolation ==
    \A c \in Calls :
        (/\ calls[c].pc = "done" /\ calls[c].kind = "annotate" /\ calls[c].fault.at # 0
         /\ last.op = "create_analysis") =>
            /\ files[calls[c].out].has
            /\ last.ret = "path"
            /\ Len(Post) = Len(calls[c].base)
            /\ \A j \in (1..Len(Post)) \ {calls[c].fault.at} :
                  /\ HasAnnotation(Post[j])
                  /\ Complete(Post[j], LCA, LCASchema)
                  /\ Complete(Post[j], Prosjektinfo, InfoSchema)

\* an annotation call saved after its first element raised with no set
\* created, the second element annotated
C23_Witness ==
    /\ calls["b"].pc = "done"
    /\ last.op = "create_analysis"
    /\ calls["b"].fault.at = 1
    /\ NoAnnotation(Post[1])
    /\ NoAnnotation(calls["b"].base[2])
    /\ HasAnnotation(Post[2])

\* C24: in every state of the analysis model, an element that carries G55_LCA
\* has its eight properties and an element that carries G55_Prosjektinfo has
\* its three.
C24_AnnotationSchema ==
    files["ana"].has =>
        \A k \in 1..Len(files["ana"].elems) :
            /\ Complete(files["ana"].elems[k], LCA, LCASchema)
            /\ Complete(files["ana"].elems[k], Prosjektinfo, InfoSchema)

\* the values an MMI scan can capture on an element: the strings of the
\* non-empty values of its properties whose name contains 'MMI'
MMIValues(e) ==
    {pr[3].s : pr \in {q \in PairsOn(e) : ContainsMMI(q[2]) /\ NotNa(q[3]) /\ q[3].s # ""}}

\* C25: an annotation pass that creates G55_LCA on an element gives it as
\* Original_MMI the value of one of its non-empty properties named like MMI
\* when it has one, and the empty string only when it has none.
C25_OriginalMMI ==
    Annotated =>
        \A k \in 1..Len(Input) :
            ~DictHas(get_psets(Input[k]), LCA) =>
                \E v \in (IF MMIValues(Input[k]) = {} THEN {""} ELSE MMIValues(Input[k])) :
                    Reported(Post[k], LCA, N("Original_MMI")) = <<TRUE, S(v)>>

\* the Floor of an element: of the first storey among its containers, the name
\* or, when the name is absent, the long name; nothing for a spatial container
\* and for an element in no storey
FloorExpected(e) ==
    LET storeys == SelectSeq(e.contained, LAMBDA rel : rel.kind = "IfcBuildingStorey")
    IN IF e.entity \in {"IfcSite", "IfcBuildingStorey", "IfcBuilding", "IfcSpace", "IfcZone"}
          \/ storeys = <<>>
       THEN None
       ELSE IF storeys[1].name # None THEN storeys[1].name ELSE storeys[1].longname

\* C26: the table of an extraction holds as Floor of every processed element
\* the name of the first storey that contains it, the storey's long name when
\* it has no name, and nothing for a spatial container or an element in no
\* storey.
C26_FloorLookup ==
    Extracted =>
        \A k \in 1..Len(Processed(Input)) :
            df.rows[k][N("Floor")] = FloorExpected(Processed(Input)[k])

\* the names of the own sets of an element and of their properties, in order
Shape(e) ==
    [j \in OwnSets(e) |->
        <<e.psets[j].name, [i \in 1..Len(e.psets[j].props) |-> e.psets[j].props[i][1]]>>]

\* C29: a sync of the unedited table extracted from the model it is applied to
\* leaves every element with the own sets and the properties it had, every
\* value being the string of the value it was.
C29_ExtractSyncRoundTrip ==
    (Synced /\ \E t \in 0..now :
                  last.tbl = ReadExcel(ExtractTable(last.pre, FileName(last.out), t))) =>
        \A k \in 1..Len(Post) :
            /\ Shape(Post[k]) = Shape(last.pre[k])
            /\ \A j \in OwnSets(Post[k]) : \A i \in 1..Len(Post[k].psets[j].props) :
                  Post[k].psets[j].props[i][2] \in
                      {last.pre[k].psets[j].props[i][2], Str(last.pre[k].psets[j].props[i][2])}

\* C28: the model a sync or a fast update leaves is a fixed point of it: the
\* same table applied to it once more adds no set and no property and changes
\* no value.
C28_SyncIdempotent ==
    /\ Synced => SyncModel(Post, last.tbl) = Post
    /\ Updated => UpdateModel(Post, last.tbl) = Post

\* a sync that created a set on an element and changed the model
C28_Witness ==
    /\ Synced
    /\ \E k \in 1..Len(Post) : Len(Post[k].psets) > Len(last.pre[k].psets)

\* C27: the source model file is in every state the file it was at the start,
\* whatever extractions, annotations, workflows and syncs have run; an
\* annotation or a workflow writes to a path that is not the path it read, and
\* a sync or a fast update writes to the analysis path it was given.
C27_SourceReadOnly ==
    /\ files["src"].mtime = 0
    /\ files["src"].elems \in SourceModels
    /\ last.op \in {"create_analysis", "run_workflow"} => last.out # last.inp
    /\ last.op \in {"sync", "update"} => last.out = "ana"

\* C30: whenever the processing flag of the session is set, it is reset later:
\* the controls that are disabled while it is set do not stay disabled.
C30_FlagReleased == session.is_processing ~> ~session.is_processing

====
